---- MODULE Spec2Model ----
(***************************************************************************)
(* Spotlight+AI: the taste/recommendation store (src/spotlight-ai.ts) and  *)
(* the resilient model-invocation wrapper (src/unnamed/part_000).          *)
(*                                                                         *)
(* Text is modelled as a sequence of tokens (strings).  A rationale is a   *)
(* sequence over "(", digits, "%", " ", the word match in its letter       *)
(* cases, ")", ordinary words, the tier words and sentence punctuation.    *)
(* A raw model answer is a sequence over "p" (prose without braces), "{",  *)
(* "}", "x" (a JSON member other than recommendations) and payload names,  *)
(* each payload name standing for the member text                          *)
(* "recommendations": [...] whose entries RecsTable lists.  Scores are     *)
(* thousandths (900 is 0.9); times are milliseconds.                       *)
(***************************************************************************)
EXTENDS Integers, Sequences, FiniteSets, TLC

(* ------------------------------ bounds -------------------------------- *)

\* API calls (record, clear, llmRecommend, executeLLM, getRecommendations) per run
MaxOps == 3
\* idle periods between invocations end by this time (milliseconds)
MaxTime == 20000
\* failed or timed-out external calls per run
MaxFaults == 4

(* ------------------------- program constants -------------------------- *)

MEMO_TTL_MS == 15000
MAX_RETRIES == 2
BACKOFF_MS == 500
BACKOFF_CAP_MS == 4000
DEFAULT_TIMEOUT_MS == 10000
PERCENT_TOLERANCE == 10
MAX_SENTENCES == 3

(* ----------------------------- text helpers --------------------------- *)

Digits == {"0", "1", "2", "3", "4", "5", "6", "7", "8", "9"}

DigitValue(d) ==
    CASE d = "0" -> 0 [] d = "1" -> 1 [] d = "2" -> 2 [] d = "3" -> 3
      [] d = "4" -> 4 [] d = "5" -> 5 [] d = "6" -> 6 [] d = "7" -> 7
      [] d = "8" -> 8 [] d = "9" -> 9

\* parseInt(m[1], 10) on a run of digit tokens
RECURSIVE parseInt(_)
parseInt(ds) ==
    IF ds = <<>> THEN 0
    ELSE 10 * parseInt(SubSeq(ds, 1, Len(ds) - 1)) + DigitValue(ds[Len(ds)])

\* \s of the regular expressions
IsSpace(tok) == tok = " "

\* the word "match" under the /i flag
IsMatchWord(tok) == tok \in {"match", "Match", "MATCH"}

IsDigit(tok) == tok \in Digits

\* \d{1,3} and \s*: number of consecutive digit (space) tokens from position i
RECURSIVE DigitRun(_, _)
DigitRun(s, i) ==
    IF i > Len(s) \/ ~IsDigit(s[i]) THEN 0 ELSE 1 + DigitRun(s, i + 1)

RECURSIVE SpaceRun(_, _)
SpaceRun(s, i) ==
    IF i > Len(s) \/ ~IsSpace(s[i]) THEN 0 ELSE 1 + SpaceRun(s, i + 1)

\* String.prototype.trim
RECURSIVE trim(_)
trim(s) ==
    IF s = <<>> THEN s
    ELSE IF IsSpace(s[1]) THEN trim(Tail(s))
    ELSE IF IsSpace(s[Len(s)]) THEN trim(SubSeq(s, 1, Len(s) - 1))
    ELSE s

\* s.match(/^\((\d{1,3})%\s*match\)\s+/i): [ok, nn (the captured digits as a
\* number), len (length of the matched prefix)]
PercentPrefix(s) ==
    LET d  == DigitRun(s, 2)
        sp == SpaceRun(s, 3 + d)
        ws == SpaceRun(s, 5 + d + sp)
        ok == /\ Len(s) >= 1 /\ s[1] = "("
              /\ d >= 1 /\ d <= 3
              /\ Len(s) >= 2 + d /\ s[2 + d] = "%"
              /\ Len(s) >= 3 + d + sp /\ IsMatchWord(s[3 + d + sp])
              /\ Len(s) >= 4 + d + sp /\ s[4 + d + sp] = ")"
              /\ ws >= 1
    IN  IF ok THEN [ok |-> TRUE, nn |-> parseInt(SubSeq(s, 2, 1 + d)), len |-> 4 + d + sp + ws]
        ELSE [ok |-> FALSE, nn |-> 0, len |-> 0]

\* Math.round(score * 100) for a score in thousandths: floor(x + 0.5)
RoundPercent(score) == (score + 5) \div 10

abs(n) == IF n < 0 THEN -n ELSE n

\* clamp01(n): Math.max(0, Math.min(1, n)), in thousandths
clamp01(n) == IF n < 0 THEN 0 ELSE IF n > 1000 THEN 1000 ELSE n

Range(s) == {s[i] : i \in DOMAIN s}

(* ------------------------ model answers (inputs) ---------------------- *)

\* one entry of the recommendations array, as JSON.parse delivers it
Entry(m, sc, r) ==
    [museumId |-> m, idIsString |-> TRUE, hasScore |-> TRUE, score |-> sc,
     hasRationale |-> TRUE, rationale |-> r]

\* "(NN% match) " followed by body
Marked(nn, body) == <<"(">> \o nn \o <<"%", " ", "match", ")", " ">> \o body

\* the arrays the payload names stand for
RecsTable ==
    [name \in {"R_B", "R_CB", "R_C", "R_A", "R_dup", "R_hi", "R_nopre", "R_101",
               "R_far", "R_edge", "R_loose", "R_empty", "R_noscore", "R_tier",
               "R_blank", "R_long", "R_Z", "R_scoreThenElig", "R_tierThenShape",
               "R_tierThenScore", "R_goodThenTier", "R_tie", "R_lower",
               "R_three", "R_packed"} |->
       CASE name = "R_B"  -> <<Entry("B", 900, Marked(<<"9", "0">>, <<"w", ".">>))>>
         [] name = "R_CB" -> <<Entry("C", 700, Marked(<<"7", "0">>, <<"w", ".">>)),
                               Entry("B", 900, Marked(<<"9", "0">>, <<"w", ".">>))>>
         [] name = "R_C"  -> <<Entry("C", 400, Marked(<<"4", "0">>, <<"w", ".", " ", "w", "!">>))>>
         [] name = "R_A"  -> <<Entry("B", 900, Marked(<<"9", "0">>, <<"w", ".">>)),
                               Entry("A", 800, Marked(<<"8", "0">>, <<"w", ".">>))>>
         [] name = "R_dup" -> <<Entry("B", 900, Marked(<<"9", "0">>, <<"w", ".">>)),
                                Entry("B", 500, Marked(<<"5", "0">>, <<"w", ".">>))>>
         [] name = "R_hi" -> <<Entry("B", 1200, Marked(<<"1", "0", "0">>, <<"w", ".">>))>>
         [] name = "R_nopre" -> <<Entry("B", 900, <<"w", ".">>)>>
         [] name = "R_101" -> <<Entry("B", 1000, Marked(<<"1", "0", "1">>, <<"w", ".">>))>>
         [] name = "R_far" -> <<Entry("B", 620, Marked(<<"9", "5">>, <<"w", ".">>))>>
         [] name = "R_edge" -> <<Entry("B", 845, Marked(<<"9", "5">>, <<"w", ".">>))>>
         [] name = "R_loose" -> <<Entry("B", 70, <<"(", "7", "%", "MATCH", ")", " ", " ", "w">>)>>
         [] name = "R_empty" -> <<>>
         [] name = "R_noscore" ->
              <<[Entry("B", 0, Marked(<<"9", "0">>, <<"w", ".">>)) EXCEPT !.hasScore = FALSE]>>
         [] name = "R_tier" -> <<Entry("B", 900, Marked(<<"9", "0">>, <<"you", " ", "LOVE", " ", "w", ".">>))>>
         [] name = "R_blank" -> <<Entry("B", 900, Marked(<<"9", "0">>, <<>>))>>
         [] name = "R_long" ->
              <<Entry("B", 900, Marked(<<"9", "0">>,
                   <<"w", ".", " ", "w", "?", " ", "w", "!", " ", "w", ".">>))>>
         [] name = "R_Z" -> <<Entry("Z", 900, Marked(<<"9", "0">>, <<"w", ".">>))>>
         [] name = "R_scoreThenElig" ->
              <<Entry("B", 1200, Marked(<<"1", "0", "0">>, <<"w", ".">>)),
                Entry("Z", 800, Marked(<<"8", "0">>, <<"w", ".">>))>>
         [] name = "R_tierThenShape" ->
              <<Entry("B", 900, Marked(<<"9", "0">>, <<"LOVE", " ", "w", ".">>)),
                [Entry("C", 0, Marked(<<"9", "0">>, <<"w", ".">>)) EXCEPT !.hasScore = FALSE]>>
         [] name = "R_tierThenScore" ->
              <<Entry("B", 900, Marked(<<"9", "0">>, <<"LOVE", " ", "w", ".">>)),
                Entry("C", 620, Marked(<<"9", "5">>, <<"w", ".">>))>>
         [] name = "R_goodThenTier" ->
              <<Entry("C", 700, Marked(<<"7", "0">>, <<"w", ".">>)),
                Entry("B", 900, Marked(<<"9", "0">>, <<"a", " ", "MEH", " ", "w", ".">>))>>
         [] name = "R_tie" -> <<Entry("C", 900, Marked(<<"9", "0">>, <<"w", ".">>)),
                                Entry("B", 900, Marked(<<"9", "0">>, <<"v", ".">>))>>
         [] name = "R_lower" ->
              <<Entry("B", 900, Marked(<<"9", "0">>, <<"you", " ", "love", " ", "w", ".">>))>>
         [] name = "R_three" ->
              <<Entry("B", 900, Marked(<<"9", "0">>,
                   <<"w", ".", " ", "w", "?", " ", "w", "!">>))>>
         [] name = "R_packed" ->
              <<Entry("B", 900, Marked(<<"9", "0">>,
                   <<"w", ".", "w", "?", "w", "!", "w", ".">>))>>]

PayloadNames == DOMAIN RecsTable

\* the member text "recommendations": <something that is not an array>
NonArray == "R_notarray"

(* ------------------------------ parseLLMJson -------------------------- *)

\* nesting depth after the first i tokens
RECURSIVE Depth(_, _)
Depth(s, i) ==
    IF i = 0 THEN 0
    ELSE Depth(s, i - 1) + (IF s[i] = "{" THEN 1 ELSE IF s[i] = "}" THEN -1 ELSE 0)

\* s is the text of one JSON object: braces balanced, closed only by the last
\* token, and no prose token anywhere
IsObjectText(s) ==
    /\ Len(s) >= 2 /\ s[1] = "{" /\ s[Len(s)] = "}"
    /\ \A i \in 1..Len(s) : s[i] # "p"
    /\ \A i \in 1..(Len(s) - 1) : Depth(s, i) >= 1
    /\ Depth(s, Len(s)) = 0

\* positions of the top-level recommendations members of an object text
RecsMembers(s) ==
    {i \in 1..Len(s) : s[i] \in PayloadNames \cup {NonArray} /\ Depth(s, i) = 1}

Max(S) == CHOOSE x \in S : \A y \in S : y <= x
Min(S) == CHOOSE x \in S : \A y \in S : x <= y

\* JSON.parse followed by the test (!obj || !Array.isArray(obj.recommendations)):
\* syntax is FALSE when JSON.parse throws; a repeated key keeps its last value
JSONparse(s) ==
    IF ~IsObjectText(s) THEN [syntax |-> FALSE, hasRecs |-> FALSE, recommendations |-> <<>>]
    ELSE LET ms == RecsMembers(s) IN
         IF ms = {} \/ s[Max(ms)] = NonArray
         THEN [syntax |-> TRUE, hasRecs |-> FALSE, recommendations |-> <<>>]
         ELSE [syntax |-> TRUE, hasRecs |-> TRUE, recommendations |-> RecsTable[s[Max(ms)]]]

\* raw.match(/{[\s\S]*}/): from the first "{" to the last "}" (greedy)
BraceBlock(raw) ==
    LET opens  == {i \in 1..Len(raw) : raw[i] = "{"}
        closes == {i \in 1..Len(raw) : raw[i] = "}"}
    IN  IF opens = {} \/ closes = {} \/ Max(closes) < Min(opens)
        THEN [found |-> FALSE, text |-> <<>>]
        ELSE [found |-> TRUE, text |-> SubSeq(raw, Min(opens), Max(closes))]

parseLLMJson(raw) ==
    LET direct == JSONparse(raw) IN
    IF direct.syntax /\ direct.hasRecs
    THEN [ok |-> TRUE, error |-> "", recommendations |-> direct.recommendations]
    ELSE LET m == BraceBlock(raw) IN
         IF ~m.found
         THEN [ok |-> FALSE, error |-> "Failed to parse LLM output", recommendations |-> <<>>]
         ELSE LET obj == JSONparse(m.text) IN
              IF ~obj.syntax
              THEN [ok |-> FALSE, error |-> "SyntaxError", recommendations |-> <<>>]
              ELSE IF ~obj.hasRecs
              THEN [ok |-> FALSE, error |-> "malformed recommendations block",
                    recommendations |-> <<>>]
              ELSE [ok |-> TRUE, error |-> "", recommendations |-> obj.recommendations]

(* ------------------------------ validators ---------------------------- *)

NoError == [kind |-> "ok", id |-> ""]
Err(kind, id) == [kind |-> kind, id |-> id]

\* the error of the first index in 1..n whose check E fails (a for loop that throws)
FirstError(n, E(_)) ==
    IF \E i \in 1..n : E(i) # NoError
    THEN E(Min({i \in 1..n : E(i) # NoError}))
    ELSE NoError

\* !r.museumId.trim() for the identifiers of the model
IsBlankId(m) == m \in {"", " "}

ShapeError(r) ==
    IF ~r.idIsString \/ IsBlankId(r.museumId) THEN Err("shape-id", "")
    ELSE IF ~r.hasScore THEN Err("shape-score", r.museumId)
    ELSE IF ~r.hasRationale \/ trim(r.rationale) = <<>> THEN Err("shape-rationale", r.museumId)
    ELSE NoError

\* faulty variant: the seen set is never consulted
validateNoDuplicatesAndOnlyUnseen_noSeen(recs, unseen) ==
    LET E(i) ==
          IF recs[i].museumId \notin Range(unseen) THEN Err("eligibility", recs[i].museumId)
          ELSE NoError
    IN  FirstError(Len(recs), E)

\* faulty variant: membership in the unseen set is not checked
validateNoDuplicatesAndOnlyUnseen_noUnseen(recs, unseen) ==
    LET E(i) ==
          IF \E j \in 1..(i - 1) : recs[j].museumId = recs[i].museumId
          THEN Err("duplicate", recs[i].museumId)
          ELSE NoError
    IN  FirstError(Len(recs), E)

validateNoDuplicatesAndOnlyUnseen(recs, unseen) ==
    LET E(i) ==
          IF recs[i].museumId \notin Range(unseen) THEN Err("eligibility", recs[i].museumId)
          ELSE IF \E j \in 1..(i - 1) : recs[j].museumId = recs[i].museumId
          THEN Err("duplicate", recs[i].museumId)
          ELSE NoError
    IN  FirstError(Len(recs), E)

ScoreError(r) ==
    LET m == PercentPrefix(r.rationale) IN
    IF r.score < 0 \/ r.score > 1000 THEN Err("score-range", r.museumId)
    ELSE IF ~m.ok THEN Err("percent-prefix", r.museumId)
    ELSE IF m.nn < 0 \/ m.nn > 100 THEN Err("percent-range", r.museumId)
    ELSE IF abs(m.nn - RoundPercent(r.score)) > PERCENT_TOLERANCE
    THEN Err("percent-mismatch", r.museumId)
    ELSE NoError

\* faulty variant: the percentage is never compared with the score
validateScoreAndPercentAgreement_noDelta(recs) ==
    LET E(i) ==
          LET r == recs[i]
              m == PercentPrefix(r.rationale)
          IN  IF r.score < 0 \/ r.score > 1000 THEN Err("score-range", r.museumId)
              ELSE IF ~m.ok THEN Err("percent-prefix", r.museumId)
              ELSE IF m.nn < 0 \/ m.nn > 100 THEN Err("percent-range", r.museumId)
              ELSE NoError
    IN  FirstError(Len(recs), E)

validateScoreAndPercentAgreement(recs) ==
    LET E(i) == ScoreError(recs[i]) IN FirstError(Len(recs), E)

\* r.rationale.replace(/^\(\d{1,3}%\s*match\)\s+/i, '').trim()
StripPrefix(rationale) ==
    LET m == PercentPrefix(rationale) IN
    trim(IF m.ok THEN SubSeq(rationale, m.len + 1, Len(rationale)) ELSE rationale)

\* /\b(LOVE|LIKE|MEH)\b/.test(text): no i flag, so upper case only
TierWords == {"LOVE", "LIKE", "MEH"}
HasTierWord(text) == \E i \in 1..Len(text) : text[i] \in TierWords

\* text.split(/(?<=[.?!])\s+/).filter(s => s.trim().length > 0).length for a
\* trimmed text: one more than the whitespace runs that follow a . ? or !
IsStop(tok) == tok \in {".", "?", "!"}
SentenceCount(text) ==
    IF text = <<>> THEN 0
    ELSE 1 + Cardinality({i \in 2..Len(text) : IsSpace(text[i]) /\ IsStop(text[i - 1])})

RationaleError(r) ==
    LET text == StripPrefix(r.rationale) IN
    IF text = <<>> THEN Err("empty-rationale", r.museumId)
    ELSE IF HasTierWord(text) THEN Err("banned-vocabulary", r.museumId)
    ELSE IF SentenceCount(text) > MAX_SENTENCES THEN Err("length-exceeded", r.museumId)
    ELSE NoError

validateRationaleRules(recs) ==
    LET E(i) == RationaleError(recs[i]) IN FirstError(Len(recs), E)

\* faulty variant: an empty recommendations array passes
validateLLMRecommendations_emptyAllowed(recs, unseen) ==
    LET shape == FirstError(Len(recs), LAMBDA i : ShapeError(recs[i])) IN
    IF shape # NoError THEN shape
    ELSE LET elig == validateNoDuplicatesAndOnlyUnseen(recs, unseen) IN
         IF elig # NoError THEN elig
         ELSE LET sc == validateScoreAndPercentAgreement(recs) IN
              IF sc # NoError THEN sc
              ELSE validateRationaleRules(recs)

\* faulty variant: the score check runs before the eligibility check
validateLLMRecommendations_scoreFirst(recs, unseen) ==
    IF Len(recs) = 0 THEN Err("shape-empty", "")
    ELSE LET shape == FirstError(Len(recs), LAMBDA i : ShapeError(recs[i])) IN
         IF shape # NoError THEN shape
         ELSE LET sc == validateScoreAndPercentAgreement(recs) IN
              IF sc # NoError THEN sc
              ELSE LET elig == validateNoDuplicatesAndOnlyUnseen(recs, unseen) IN
                   IF elig # NoError THEN elig
                   ELSE validateRationaleRules(recs)

\* validateLLMRecommendations(parsed, unseen): the error thrown, or NoError
validateLLMRecommendations(recs, unseen) ==
    IF Len(recs) = 0 THEN Err("shape-empty", "")
    ELSE LET shape == FirstError(Len(recs), LAMBDA i : ShapeError(recs[i])) IN
         IF shape # NoError THEN shape
         ELSE LET elig == validateNoDuplicatesAndOnlyUnseen(recs, unseen) IN
              IF elig # NoError THEN elig
              ELSE LET sc == validateScoreAndPercentAgreement(recs) IN
                   IF sc # NoError THEN sc
                   ELSE validateRationaleRules(recs)

(* --------------------------- ranking (lines 114-123) ------------------ *)

isValidRec(r) == r.idIsString

\* rec => {museum, rationale: (rec.rationale ?? '').trim(), score: clamp01(rec.score ?? 0.5)}
mapRec(r) ==
    [museum |-> r.museumId,
     rationale |-> IF r.hasRationale THEN trim(r.rationale) ELSE <<>>,
     score |-> clamp01(IF r.hasScore THEN r.score ELSE 500)]

MapSeq(s, F(_)) == [i \in 1..Len(s) |-> F(s[i])]

\* faulty variant: the entries stay in the model's order
sortByScoreDesc_none(s) == s

\* Array.prototype.sort((a, b) => b.score - a.score): stable, score descending
RECURSIVE sortByScoreDesc(_)
sortByScoreDesc(s) ==
    IF Len(s) <= 1 THEN s
    ELSE LET front == sortByScoreDesc(SubSeq(s, 1, Len(s) - 1))
             x == s[Len(s)]
             n == Cardinality({i \in 1..Len(front) : front[i].score >= x.score})
         IN  SubSeq(front, 1, n) \o <<x>> \o SubSeq(front, n + 1, Len(front))

\* slice(0, n) for n >= 0
slice(s, n) == SubSeq(s, 1, IF n < Len(s) THEN n ELSE Len(s))

top(recs, unseen, k) ==
    LET valid  == SelectSeq(recs, isValidRec)
        mapped == MapSeq(valid, mapRec)
        inPool == SelectSeq(mapped, LAMBDA r : r.museum \in Range(unseen))
    IN  slice(sortByScoreDesc(inPool), k)

\* the RecommendationRow of a ranked entry (user is the key of the map)
toRow(t, at) ==
    [museum |-> t.museum, score |-> t.score, rationale |-> t.rationale, generatedAt |-> at]

\* what the caller receives for a ranked entry or reads back from a row
toResult(t) == [museum |-> t.museum, rationale |-> t.rationale]

(* ------------------------------ prompt and key ------------------------ *)

DefaultModel == <<"gemini-2.5-flash-lite">>

\* faulty variant: the payload carries updatedAt as well
RECURSIVE tastePayload_withTime(_)
tastePayload_withTime(tastes) ==
    IF tastes = <<>> THEN <<>>
    ELSE <<tastes[1].museum, tastes[1].taste, ToString(tastes[1].updatedAt)>>
            \o tastePayload_withTime(Tail(tastes))

RECURSIVE tastePayload(_)
tastePayload(tastes) ==
    IF tastes = <<>> THEN <<>>
    ELSE <<tastes[1].museum, tastes[1].taste>> \o tastePayload(Tail(tastes))

\* the template with its three holes filled: k, TASTE_SIGNALS, CANDIDATES
buildPromptFromTasteSignals(tastes, candidates, k) ==
    <<"Select up to", ToString(k), "TASTE_SIGNALS">> \o tastePayload(tastes)
        \o <<"CANDIDATES">> \o candidates

\* sha256(model + '::' + prompt): the digest is identified with the text digested
promptKey(model, prompt) == model \o <<"::">> \o prompt

(* ------------------------------ memo (lines 16-31) -------------------- *)

\* faulty variant: an entry never expires
MemoFresh_noExpiry(m, key, t) == key \in DOMAIN m

\* memo.get(key) is defined and not older than the TTL at time t
MemoFresh(m, key, t) == key \in DOMAIN m /\ ~(t - m[key].at > MEMO_TTL_MS)

\* the memo after getMemo(key) at time t: an expired entry is deleted
memoAfterGet(m, key, t) ==
    IF key \in DOMAIN m /\ t - m[key].at > MEMO_TTL_MS
    THEN [x \in DOMAIN m \ {key} |-> m[x]]
    ELSE m

\* const cached = getMemo(key); if (cached) ...: null and '' are both falsy
cachedIsTruthy(m, key, t) == MemoFresh(m, key, t) /\ m[key].text # <<>>

\* faulty variant: the response is not memoized
setMemo_skip(m, key, text, t) == m

\* faulty variant: an existing entry is kept (first write wins)
setMemo_keepFirst(m, key, text, t) ==
    IF key \in DOMAIN m THEN m
    ELSE [x \in DOMAIN m \cup {key} |-> IF x = key THEN [at |-> t, text |-> text] ELSE m[x]]

setMemo(m, key, text, t) ==
    [x \in DOMAIN m \cup {key} |-> IF x = key THEN [at |-> t, text |-> text] ELSE m[x]]

(* ------------------- error classification (lines 60-70) --------------- *)

\* the errors the external call rejects with: name, status and message
ServiceErrors ==
    {[name |-> "Error", status |-> "503", msg |-> "Service Unavailable"],
     [name |-> "Error", status |-> "504", msg |-> "Gateway Timeout"],
     [name |-> "Error", status |-> "400", msg |-> "API key not valid"]}

\* what the call rejects with once ctl.abort() has fired
AbortError == [name |-> "AbortError", status |-> "", msg |-> "This operation was aborted"]

\* /abort|timeout/i.test(msg), on the messages of the model
MentionsAbortOrTimeout(msg) == msg \in {"Gateway Timeout", "This operation was aborted"}

RetryableStatus == {"429", "500", "502", "503", "504"}

isTimeout(err) == err.name = "AbortError" \/ MentionsAbortOrTimeout(err.msg)
\* faulty variant: only a retryable status makes a failure transient
isTransient_statusOnly(err) == err.status \in RetryableStatus

isTransient(err) == isTimeout(err) \/ err.status \in RetryableStatus

\* faulty variant: every failure is retried until the budget is spent
givesUp_budgetOnly(attempt, err) == attempt > 1 + MAX_RETRIES

\* faulty variant: the first failure is surfaced at once
givesUp_always(attempt, err) == TRUE

\* attempt > 1 + MAX_RETRIES || !isTransient
givesUp(attempt, err) == attempt > 1 + MAX_RETRIES \/ ~isTransient(err)

\* `${label}: ${msg}`, the label kept apart from the code it embeds
labelOf(err) ==
    IF isTimeout(err) THEN [label |-> "LLM_TIMEOUT", code |-> "", msg |-> err.msg]
    ELSE IF isTransient(err)
    THEN [label |-> "LLM_TRANSIENT", code |-> err.status, msg |-> err.msg]
    ELSE [label |-> "LLM_ERROR", code |-> "", msg |-> err.msg]

NoThrown == [label |-> "", code |-> "", msg |-> ""]

minOf(a, b) == IF a < b THEN a ELSE b

(* ------------------------------- inputs ------------------------------- *)

Users == {"u1", "u2"}
Museums == {"A", "B", "C"}
Procs == {"p1", "p2"}
\* lengths of the idle periods between invocations, in milliseconds
TickSteps == {5000}

\* arguments of recordMuseumTaste, clearMuseumTaste, llmRecommend, getRecommendations
TasteInputs ==
    {[user |-> "u1", museum |-> "A", taste |-> "LOVE"],
     [user |-> "u1", museum |-> "A", taste |-> "MEH"],
     [user |-> "u1", museum |-> "B", taste |-> "LIKE"],
     [user |-> "u2", museum |-> "A", taste |-> "LOVE"]}
ClearInputs ==
    {[user |-> "u1", museum |-> "A"], [user |-> "u1", museum |-> "C"]}
RecommendInputs ==
    {[user |-> "u1", k |-> 0, candidates |-> <<"A", "B", "C">>],
     [user |-> "u1", k |-> 1, candidates |-> <<"A", "B", "C">>],
     [user |-> "u1", k |-> 2, candidates |-> <<"A", "B", "C">>],
     [user |-> "u1", k |-> 1, candidates |-> <<"A">>],
     [user |-> "u1", k |-> 0, candidates |-> <<"A">>],
     [user |-> "u2", k |-> 1, candidates |-> <<"A", "B", "C">>]}
ReadInputs ==
    {[user |-> "u1", k |-> 1], [user |-> "u1", k |-> 2], [user |-> "u2", k |-> 0]}

\* every text of the model: each payload as a bare object, the empty text, prose
\* alone, prose around an object, an object without recommendations, and an
\* object followed by prose that holds braces of its own
ModelTexts ==
    {<<"{", n, "}">> : n \in PayloadNames}
      \cup {<<>>, <<"p">>, <<"p", "{", "R_B", "}", "p">>, <<"{", "x", "}">>,
            <<"p", "{", "R_B", "}", "p", "{", "x", "}">>}

\* the answers and failures of the external call when llmRecommend runs are
\* explored together with the store operations
SystemErrors ==
    {[name |-> "Error", status |-> "503", msg |-> "Service Unavailable"],
     [name |-> "Error", status |-> "400", msg |-> "API key not valid"]}
SystemTexts == {<<"{", "R_B", "}">>, <<"{", "R_CB", "}">>, <<"{", "R_dup", "}">>, <<>>}

\* (modelName, prompt) pairs of direct executeLLM callers
DirectCalls ==
    {[model |-> DefaultModel, prompt |-> <<"hello">>],
     [model |-> DefaultModel, prompt |-> <<"bye">>]}

\* the texts the external call answers a direct caller with
LLMTexts == {<<"a">>, <<"b">>, <<>>}

(* -------------------------------- state ------------------------------- *)

VARIABLES
    TasteSignals,     \* store.TasteSignals: user -> list of rows
    Recommendations,  \* store.Recommendations: user -> list of rows
    memo,             \* the module-level memo map: key -> {at, text}
    now,              \* Date.now()
    proc,             \* the invocations in flight or finished, one per slot
    lastRead,         \* the last getRecommendations: its arguments and what it returned
    ops,              \* API calls made so far
    faults            \* external calls that failed so far

vars == <<TasteSignals, Recommendations, memo, now, proc, lastRead, ops, faults>>

NoServiceError == [name |-> "", status |-> "", msg |-> ""]

\* one slot: the arguments and locals of an invocation, its position (pc in
\* llmRecommend, llm in executeLLM), and what it has done so far: calls counts
\* the external calls issued, waits lists the backoff delays slept, lastErr is
\* the error last caught, onlyRetryable says every error caught carried a
\* retryable status, seen is what getMemo found for its key when it started,
\* evicted says that getMemo deleted an expired entry of that key,
\* tastes is the local tasteSignals read at line 85,
\* tasteCount and before are the number of the user's taste rows and the
\* user's stored recommendations when llmRecommend was called
NoEntry == [present |-> FALSE, at |-> 0, text |-> <<>>]

\* no getRecommendations yet; op is the number of the API call that read
NoRead == [op |-> 0, user |-> "", k |-> 0, result |-> <<>>]

IdleProc ==
    [kind |-> "none", pc |-> "idle", llm |-> "none",
     user |-> "", k |-> 0, candidates |-> <<>>, unseen |-> <<>>,
     model |-> <<>>, prompt |-> <<>>,
     attempt |-> 0, delay |-> 0, calls |-> 0, waits |-> <<>>,
     lastErr |-> NoServiceError, onlyRetryable |-> TRUE,
     callAt |-> 0, wakeAt |-> 0,
     text |-> <<>>, thrown |-> NoThrown,
     result |-> <<>>, error |-> NoError,
     startOp |-> 0, seen |-> NoEntry, evicted |-> FALSE,
     tasteCount |-> 0, before |-> <<>>, tastes |-> <<>>]

Init ==
    /\ TasteSignals = [u \in Users |-> <<>>]
    /\ Recommendations = [u \in Users |-> <<>>]
    /\ memo = <<>>
    /\ now = 0
    /\ proc = [p \in Procs |-> IdleProc]
    /\ lastRead = NoRead
    /\ ops = 0
    /\ faults = 0

\* a slot whose invocation has settled (or that never ran) can take the next one
Settled(pr) ==
    \/ pr.kind = "none"
    \/ pr.kind = "recommend" /\ pr.pc \in {"done", "failed"}
    \/ pr.kind = "execute" /\ pr.llm \in {"returned", "thrown"}

(* ---------------------- store operations (lines 51-67) ---------------- *)

\* faulty variant: the row is always pushed (the findIndex test is missing)
upsertTaste_append(list, museum, taste, at) ==
    Append(list, [museum |-> museum, taste |-> taste, updatedAt |-> at])

upsertTaste(list, museum, taste, at) ==
    LET row == [museum |-> museum, taste |-> taste, updatedAt |-> at] IN
    IF \E i \in 1..Len(list) : list[i].museum = museum
    THEN [i \in 1..Len(list) |-> IF i = Min({j \in 1..Len(list) : list[j].museum = museum})
                                 THEN row ELSE list[i]]
    ELSE Append(list, row)

recordMuseumTaste(user, museum, taste) ==
    /\ ops < MaxOps
    /\ ops' = ops + 1
    /\ TasteSignals' = [TasteSignals EXCEPT ![user] = upsertTaste(@, museum, taste, now)]
    /\ UNCHANGED <<Recommendations, memo, now, proc, lastRead, faults>>

clearMuseumTaste(user, museum) ==
    /\ ops < MaxOps
    /\ ops' = ops + 1
    /\ TasteSignals' = [TasteSignals EXCEPT
                          ![user] = SelectSeq(@, LAMBDA ts : ts.museum # museum)]
    /\ UNCHANGED <<Recommendations, memo, now, proc, lastRead, faults>>

\* faulty variant: every row is returned
readTop_all(rows, k) == MapSeq(sortByScoreDesc(rows), toResult)

\* rows.slice().sort(by score desc).slice(0, Math.max(1, k)).map(...)
readTop(rows, k) ==
    MapSeq(slice(sortByScoreDesc(rows), IF k > 1 THEN k ELSE 1), toResult)

\* faulty variant: the stored array itself is sorted and cut to the top k
\* (no .slice() copy, splice instead of slice).
getRecommendations_keepsTop(user, k) ==
    /\ ops < MaxOps
    /\ ops' = ops + 1
    /\ lastRead' = [op |-> ops + 1, user |-> user, k |-> k,
                     result |-> readTop(Recommendations[user], k)]
    /\ Recommendations' =
           [Recommendations EXCEPT
              ![user] = slice(sortByScoreDesc(Recommendations[user]),
                              IF k > 1 THEN k ELSE 1)]
    /\ UNCHANGED <<TasteSignals, memo, now, proc, faults>>

getRecommendations(user, k) ==
    /\ ops < MaxOps
    /\ ops' = ops + 1
    /\ lastRead' = [op |-> ops + 1, user |-> user, k |-> k,
                     result |-> readTop(Recommendations[user], k)]
    /\ UNCHANGED <<TasteSignals, Recommendations, memo, now, proc, faults>>

(* ------------------------ executeLLM (lines 36-75) -------------------- *)

\* lines 37-48 up to the first external call: a truthy memo hit returns at
\* once, anything else issues attempt 1
beginExecute(pr, m, t) ==
    LET key == promptKey(pr.model, pr.prompt)
        seen == IF MemoFresh(m, key, t)
                THEN [present |-> TRUE, at |-> m[key].at, text |-> m[key].text]
                ELSE NoEntry
        evicted == key \in DOMAIN m /\ t - m[key].at > MEMO_TTL_MS
    IN  IF cachedIsTruthy(m, key, t)
        THEN [pr EXCEPT !.llm = "returned", !.text = m[key].text, !.seen = seen,
                        !.evicted = evicted]
        ELSE [pr EXCEPT !.llm = "calling", !.attempt = 1, !.delay = BACKOFF_MS,
                        !.calls = 1, !.callAt = t, !.seen = seen, !.evicted = evicted]

\* faulty variant: the delay is not doubled after a retry
onCallError_noDoubling(pr, err, t) ==
    IF givesUp(pr.attempt, err)
    THEN [pr EXCEPT !.llm = "thrown", !.thrown = labelOf(err), !.callAt = 0,
                    !.lastErr = err,
                    !.onlyRetryable = @ /\ err.status \in RetryableStatus,
                    !.pc = IF pr.kind = "recommend" THEN "failed" ELSE @,
                    !.error = IF pr.kind = "recommend" THEN Err(labelOf(err).label, "") ELSE @]
    ELSE [pr EXCEPT !.llm = "backoff", !.wakeAt = t + pr.delay,
                    !.waits = Append(@, pr.delay),
                    !.callAt = 0, !.lastErr = err,
                    !.onlyRetryable = @ /\ err.status \in RetryableStatus]

\* the catch block: give up with a labelled error, or sleep for delay and double it
onCallError(pr, err, t) ==
    IF givesUp(pr.attempt, err)
    THEN [pr EXCEPT !.llm = "thrown", !.thrown = labelOf(err), !.callAt = 0,
                    !.lastErr = err,
                    !.onlyRetryable = @ /\ err.status \in RetryableStatus,
                    !.pc = IF pr.kind = "recommend" THEN "failed" ELSE @,
                    !.error = IF pr.kind = "recommend" THEN Err(labelOf(err).label, "") ELSE @]
    ELSE [pr EXCEPT !.llm = "backoff", !.wakeAt = t + pr.delay,
                    !.waits = Append(@, pr.delay),
                    !.delay = minOf(pr.delay * 2, BACKOFF_CAP_MS),
                    !.callAt = 0, !.lastErr = err,
                    !.onlyRetryable = @ /\ err.status \in RetryableStatus]

executeLLM(p, d) ==
    /\ ops < MaxOps
    /\ Settled(proc[p])
    /\ ops' = ops + 1
    /\ LET pr == [IdleProc EXCEPT !.kind = "execute", !.pc = "direct",
                                  !.model = d.model, !.prompt = d.prompt,
                                  !.startOp = ops + 1]
       IN  /\ proc' = [proc EXCEPT ![p] = beginExecute(pr, memo, now)]
           /\ memo' = memoAfterGet(memo, promptKey(d.model, d.prompt), now)
    /\ UNCHANGED <<TasteSignals, Recommendations, now, lastRead, faults>>

CallSucceeds(p, text) ==
    /\ proc[p].llm = "calling"
    /\ memo' = setMemo(memo, promptKey(proc[p].model, proc[p].prompt), text, now)
    /\ proc' = [proc EXCEPT ![p] = [@ EXCEPT !.llm = "returned", !.text = text, !.callAt = 0]]
    /\ UNCHANGED <<TasteSignals, Recommendations, now, lastRead, ops, faults>>

CallFails(p, err) ==
    /\ proc[p].llm = "calling"
    /\ faults < MaxFaults
    /\ faults' = faults + 1
    /\ proc' = [proc EXCEPT ![p] = onCallError(@, err, now)]
    /\ UNCHANGED <<TasteSignals, Recommendations, memo, now, lastRead, ops>>

\* a timer set for time `due` fires: the clock has reached `due`, or passed it
firesAt(due, t) == IF t < due THEN due ELSE t

\* the call stays pending until setTimeout(() => ctl.abort(), timeoutMs) fires
CallTimesOut(p) ==
    /\ proc[p].llm = "calling"
    /\ faults < MaxFaults
    /\ faults' = faults + 1
    /\ now' = firesAt(proc[p].callAt + DEFAULT_TIMEOUT_MS, now)
    /\ proc' = [proc EXCEPT ![p] = onCallError(@, AbortError, now')]
    /\ UNCHANGED <<TasteSignals, Recommendations, memo, lastRead, ops>>

\* the backoff timer fires: the loop issues the next attempt
BackoffDone(p) ==
    /\ proc[p].llm = "backoff"
    /\ now' = firesAt(proc[p].wakeAt, now)
    /\ proc' = [proc EXCEPT ![p] = [@ EXCEPT !.llm = "calling", !.attempt = @ + 1,
                                             !.calls = @ + 1, !.callAt = now',
                                             !.wakeAt = 0]]
    /\ UNCHANGED <<TasteSignals, Recommendations, memo, lastRead, ops, faults>>

(* ----------------------- llmRecommend (lines 76-137) ------------------ *)

unseenOf(tasteSignals, candidates) ==
    LET rated == {tasteSignals[i].museum : i \in 1..Len(tasteSignals)} IN
    SelectSeq(candidates, LAMBDA m : m \notin rated)

\* faulty variant: the check of the unseen set is missing
shortCircuits_coldStartOnly(tasteSignals, unseen) == tasteSignals = <<>>

\* the two empty-result short circuits (lines 86 and 93)
shortCircuits(tasteSignals, unseen) == tasteSignals = <<>> \/ unseen = <<>>

\* faulty variant: the test of k comes after the two short circuits
llmRecommend_shortCircuitFirst(p, user, k, candidates) ==
    /\ ops < MaxOps
    /\ Settled(proc[p])
    /\ ops' = ops + 1
    /\ LET tasteSignals == TasteSignals[user]
           unseen == unseenOf(tasteSignals, candidates)
           prompt == buildPromptFromTasteSignals(tasteSignals, unseen, k)
           pr == [IdleProc EXCEPT !.kind = "recommend", !.pc = "await", !.user = user,
                                  !.k = k, !.candidates = candidates,
                                  !.startOp = ops + 1,
                                  !.tasteCount = Len(tasteSignals),
                                  !.tastes = tasteSignals,
                                  !.before = Recommendations[user]]
       IN  IF shortCircuits(tasteSignals, unseen)
           THEN /\ Recommendations' = [Recommendations EXCEPT ![user] = <<>>]
                /\ proc' = [proc EXCEPT ![p] = [pr EXCEPT !.pc = "done", !.unseen = unseen]]
                /\ UNCHANGED memo
           ELSE IF k < 1
           THEN /\ proc' = [proc EXCEPT ![p] = [pr EXCEPT !.pc = "failed",
                                                          !.error = Err("precondition", "")]]
                /\ UNCHANGED <<Recommendations, memo>>
           ELSE /\ proc' = [proc EXCEPT ![p] =
                              beginExecute([pr EXCEPT !.unseen = unseen, !.model = DefaultModel,
                                                      !.prompt = prompt], memo, now)]
                /\ memo' = memoAfterGet(memo, promptKey(DefaultModel, prompt), now)
                /\ UNCHANGED Recommendations
    /\ UNCHANGED <<TasteSignals, now, lastRead, faults>>

\* the synchronous part of llmRecommend, up to the await of line 104
llmRecommend(p, user, k, candidates) ==
    /\ ops < MaxOps
    /\ Settled(proc[p])
    /\ ops' = ops + 1
    /\ LET tasteSignals == TasteSignals[user]
           unseen == unseenOf(tasteSignals, candidates)
           prompt == buildPromptFromTasteSignals(tasteSignals, unseen, k)
           pr == [IdleProc EXCEPT !.kind = "recommend", !.pc = "await", !.user = user,
                                  !.k = k, !.candidates = candidates,
                                  !.startOp = ops + 1,
                                  !.tasteCount = Len(tasteSignals),
                                  !.tastes = tasteSignals,
                                  !.before = Recommendations[user]]
       IN  IF k < 1
           THEN /\ proc' = [proc EXCEPT ![p] = [pr EXCEPT !.pc = "failed",
                                                          !.error = Err("precondition", "")]]
                /\ UNCHANGED <<Recommendations, memo>>
           ELSE IF shortCircuits(tasteSignals, unseen)
           THEN /\ Recommendations' = [Recommendations EXCEPT ![user] = <<>>]
                /\ proc' = [proc EXCEPT ![p] = [pr EXCEPT !.pc = "done", !.unseen = unseen]]
                /\ UNCHANGED memo
           ELSE /\ proc' = [proc EXCEPT ![p] =
                              beginExecute([pr EXCEPT !.unseen = unseen, !.model = DefaultModel,
                                                      !.prompt = prompt], memo, now)]
                /\ memo' = memoAfterGet(memo, promptKey(DefaultModel, prompt), now)
                /\ UNCHANGED Recommendations
    /\ UNCHANGED <<TasteSignals, now, lastRead, faults>>

\* lines 105-136 on the text executeLLM returned: the error thrown, or the rows
\* to store and the list to return
resume(raw, unseen, k, at) ==
    LET parsed == parseLLMJson(raw) IN
    IF ~parsed.ok
    THEN [ok |-> FALSE, error |-> Err("parse", ""), rows |-> <<>>, result |-> <<>>]
    ELSE LET verdict == validateLLMRecommendations(parsed.recommendations, unseen) IN
         IF verdict # NoError
         THEN [ok |-> FALSE, error |-> verdict, rows |-> <<>>, result |-> <<>>]
         ELSE LET ranked == top(parsed.recommendations, unseen, k) IN
              [ok |-> TRUE, error |-> NoError,
               rows |-> MapSeq(ranked, LAMBDA t : toRow(t, at)),
               result |-> MapSeq(ranked, toResult)]

\* faulty variant: the store is cleared when the invocation fails
storeAfter_clearOnFailure(recs, user, out) ==
    IF out.ok THEN [recs EXCEPT ![user] = out.rows] ELSE [recs EXCEPT ![user] = <<>>]

\* faulty variant: the new rows are appended to the old ones
storeAfter_append(recs, user, out) ==
    IF out.ok THEN [recs EXCEPT ![user] = @ \o out.rows] ELSE recs

\* faulty variant: the old rows of museums absent from the new result are kept
storeAfter_merge(recs, user, out) ==
    IF out.ok
    THEN [recs EXCEPT ![user] =
            out.rows \o SelectSeq(@, LAMBDA r : \A i \in 1..Len(out.rows) :
                                                   out.rows[i].museum # r.museum)]
    ELSE recs

\* faulty variant: the rows are stored for every user
storeAfter_allUsers(recs, user, out) ==
    IF out.ok THEN [u \in DOMAIN recs |-> out.rows] ELSE recs

\* line 135, reached only when nothing before it threw
storeAfter(recs, user, out) ==
    IF out.ok THEN [recs EXCEPT ![user] = out.rows] ELSE recs

\* the continuation of llmRecommend once executeLLM has returned
Resume(p) ==
    /\ proc[p].kind = "recommend" /\ proc[p].pc = "await" /\ proc[p].llm = "returned"
    /\ LET pr == proc[p]
           out == resume(pr.text, pr.unseen, pr.k, now)
       IN  /\ Recommendations' = storeAfter(Recommendations, pr.user, out)
           /\ proc' = [proc EXCEPT ![p] = [pr EXCEPT !.pc = IF out.ok THEN "done" ELSE "failed",
                                                     !.error = out.error,
                                                     !.result = out.result]]
    /\ UNCHANGED <<TasteSignals, memo, now, lastRead, ops, faults>>

\* time passes between invocations (within one, it passes as its timers fire)
Tick(d) ==
    /\ now + d <= MaxTime
    /\ \A p \in Procs : Settled(proc[p])
    /\ now' = now + d
    /\ UNCHANGED <<TasteSignals, Recommendations, memo, proc, lastRead, ops, faults>>

\* one caller that awaits each llmRecommend before the next, while the store
\* operations run at any time, also while an invocation is suspended
\* (the clock advances as the retry timers fire; idle periods between
\* invocations are explored with executeLLM alone, in LLMSpec)
Next ==
    \/ \E i \in TasteInputs : recordMuseumTaste(i.user, i.museum, i.taste)
    \/ \E i \in ClearInputs : clearMuseumTaste(i.user, i.museum)
    \/ \E i \in ReadInputs : getRecommendations(i.user, i.k)
    \/ \E i \in RecommendInputs : llmRecommend("p1", i.user, i.k, i.candidates)
    \/ \E text \in SystemTexts : CallSucceeds("p1", text)
    \/ \E err \in SystemErrors : CallFails("p1", err)
    \/ BackoffDone("p1")
    \/ Resume("p1")

Spec == Init /\ [][Next]_vars

\* one user who rates A or B asks, and the model answers with any text
PipelineNext ==
    \/ \E m \in {"A", "B"} : recordMuseumTaste("u1", m, "LOVE")
    \/ \E k \in {1, 2} : llmRecommend("p1", "u1", k, <<"A", "B", "C">>)
    \/ \E text \in ModelTexts : CallSucceeds("p1", text)
    \/ Resume("p1")

PipelineSpec == Init /\ [][PipelineNext]_vars

\* one direct caller of executeLLM that awaits each invocation before the next,
\* with every answer, failure and timeout of the external call, and time
\* passing between invocations
LLMNext ==
    \/ \E d \in DirectCalls : executeLLM("p1", d)
    \/ \E text \in LLMTexts : CallSucceeds("p1", text)
    \/ \E err \in ServiceErrors : CallFails("p1", err)
    \/ CallTimesOut("p1")
    \/ BackoffDone("p1")
    \/ \E d \in TickSteps : Tick(d)

LLMSpec == Init /\ [][LLMNext]_vars

\* two callers whose llmRecommend invocations overlap: each of the two users
\* has already rated one museum (recordMuseumTaste(u, "A", "LOVE"), by u1 at
\* time 0 and by u2 at time 1000, which is now), ratings go on, and the
\* external call of either invocation may answer or fail first
OverlapTexts == {<<"{", "R_B", "}">>, <<"{", "R_CB", "}">>, <<"p">>}
OverlapErrors == {[name |-> "Error", status |-> "400", msg |-> "API key not valid"]}

\* the ratings u2 makes meanwhile: a new museum, or a new taste for A
OverlapTastes == {[museum |-> "B", taste |-> "LIKE"], [museum |-> "A", taste |-> "MEH"]}

\* the invocations: either caller for either user with k = 2, and the second
\* caller for u1 also with k = 1
OverlapRequests ==
    {[slot |-> p, user |-> u, k |-> 2] : p \in Procs, u \in Users}
      \cup {[slot |-> "p2", user |-> "u1", k |-> 1]}

OverlapInit ==
    /\ TasteSignals = [u \in Users |->
                         upsertTaste(<<>>, "A", "LOVE", IF u = "u1" THEN 0 ELSE 1000)]
    /\ Recommendations = [u \in Users |-> <<>>]
    /\ memo = <<>>
    /\ now = 1000
    /\ proc = [p \in Procs |-> IdleProc]
    /\ lastRead = NoRead
    /\ ops = 0
    /\ faults = 0

OverlapNext ==
    \/ \E i \in OverlapTastes : recordMuseumTaste("u2", i.museum, i.taste)
    \/ \E i \in OverlapRequests : llmRecommend(i.slot, i.user, i.k, <<"A", "B", "C">>)
    \/ \E p \in Procs, text \in OverlapTexts : CallSucceeds(p, text)
    \/ \E p \in Procs, err \in OverlapErrors : CallFails(p, err)
    \/ \E p \in Procs : Resume(p)

OverlapSpec == OverlapInit /\ [][OverlapNext]_vars

\* two direct callers of executeLLM, each making one invocation, with model
\* names and prompts that hold the separator "::" themselves
KeyCalls ==
    {[model |-> <<"m">>, prompt |-> <<"x", "::", "y">>],
     [model |-> <<"m", "::", "x">>, prompt |-> <<"y">>],
     [model |-> <<"m">>, prompt |-> <<"y">>]}
KeyTexts == {<<"a">>, <<"b">>}
KeyErrors == {[name |-> "Error", status |-> "503", msg |-> "Service Unavailable"]}

KeyNext ==
    \/ \E p \in Procs, d \in KeyCalls : proc[p].kind = "none" /\ executeLLM(p, d)
    \/ \E p \in Procs, text \in KeyTexts : CallSucceeds(p, text)
    \/ \E p \in Procs, err \in KeyErrors : CallFails(p, err)
    \/ \E p \in Procs : BackoffDone(p)
    \/ \E d \in TickSteps : Tick(d)

KeySpec == Init /\ [][KeyNext]_vars

(* ------------------------------- claims ------------------------------- *)

ratedIn(signals, user) == {signals[user][i].museum : i \in 1..Len(signals[user])}
ratedBy(user) == ratedIn(TasteSignals, user)
museumsOf(list) == {list[i].museum : i \in 1..Len(list)}
NoRepeat(list) == \A i, j \in 1..Len(list) : list[i].museum = list[j].museum => i = j

\* C1: an llmRecommend invocation that has failed after the short-circuit checks
\* (executeLLM threw, the text did not parse, or a validator rejected it) has
\* left Recommendations(user) exactly as it was when the invocation was called.
C1_FailureLeavesStore ==
    \A p \in Procs :
        (proc[p].kind = "recommend" /\ proc[p].pc = "failed"
            /\ proc[p].error.kind # "precondition")
        => Recommendations[proc[p].user] = proc[p].before

\* C1 witness: a validator rejected the answer while the user had stored rows
C1_Witness ==
    \E p \in Procs :
        /\ proc[p].kind = "recommend" /\ proc[p].pc = "failed"
        /\ proc[p].error.kind = "duplicate"
        /\ proc[p].before # <<>>

\* C2 (the claim as stated): in every reachable state no row of
\* Recommendations(user) names a museum that has a TasteSignal for that user.
C2_NoStoredMuseumIsRated ==
    \A u \in Users : museumsOf(Recommendations[u]) \cap ratedBy(u) = {}

\* C3 (the claim as stated): when llmRecommend returns successfully, every
\* museum of the returned list is in the caller's candidate pool and has no
\* TasteSignal for the user.
C3_ReturnedAreUnratedCandidates ==
    [][\A p \in Procs :
         (proc[p].pc # "done" /\ proc'[p].kind = "recommend" /\ proc'[p].pc = "done")
         => /\ museumsOf(proc'[p].result) \subseteq Range(proc'[p].candidates)
            /\ museumsOf(proc'[p].result) \cap ratedIn(TasteSignals', proc'[p].user) = {}]_vars

\* C4: no two rows of Recommendations(user) share a museum, and no museum
\* repeats in the list a successful llmRecommend returned.
C4_NoDuplicateMuseum ==
    /\ \A u \in Users : NoRepeat(Recommendations[u])
    /\ \A p \in Procs : proc[p].pc = "done" => NoRepeat(proc[p].result)

\* C4 witness: two rows stored for one user
C4_Witness ==
    \E p \in Procs : proc[p].pc = "done" /\ Len(proc[p].result) = 2
                      /\ Len(Recommendations[proc[p].user]) = 2

\* the rationale opens with a percentage marker that agrees with the score
MarkerAgrees(score, rationale) ==
    LET m == PercentPrefix(rationale) IN
    /\ m.ok /\ m.nn >= 0 /\ m.nn <= 100
    /\ abs(m.nn - RoundPercent(score)) <= PERCENT_TOLERANCE

\* C5: every stored row has a score in [0,1] and a rationale that opens with
\* "(NN% match) ", NN in [0,100] and within 10 of round(score*100); and an
\* answer with an entry whose score is out of range, whose marker is missing,
\* above 100 or further than 10 from the score is rejected with nothing stored.
C5_ScoresAndMarkersAgree ==
    /\ \A u \in Users : \A i \in 1..Len(Recommendations[u]) :
          LET row == Recommendations[u][i] IN
          row.score >= 0 /\ row.score <= 1000 /\ MarkerAgrees(row.score, row.rationale)
    /\ \A p \in Procs :
          LET parsed == parseLLMJson(proc[p].text) IN
          (/\ proc[p].kind = "recommend" /\ proc[p].llm = "returned"
           /\ proc[p].pc \in {"done", "failed"} /\ parsed.ok
           /\ \E i \in 1..Len(parsed.recommendations) :
                 LET r == parsed.recommendations[i] IN
                 /\ r.hasScore /\ r.hasRationale
                 /\ (r.score < 0 \/ r.score > 1000 \/ ~MarkerAgrees(r.score, r.rationale)))
          => proc[p].pc = "failed" /\ Recommendations[proc[p].user] = proc[p].before

\* C5 witness: a stored row whose marker is exactly 10 away from the rounded
\* score, and a later answer rejected because marker and score disagree
C5_Witness ==
    /\ \E i \in 1..Len(Recommendations["u1"]) :
          LET row == Recommendations["u1"][i] IN
          abs(PercentPrefix(row.rationale).nn - RoundPercent(row.score)) = PERCENT_TOLERANCE
    /\ \E p \in Procs : proc[p].pc = "failed" /\ proc[p].error.kind = "percent-mismatch"

\* C6: after a successful llmRecommend the stored rows are exactly the returned
\* list (same museums, order and rationales): the old rows are replaced, not
\* merged with or appended to.
C6_StoreIsReturnedList ==
    \A p \in Procs :
        (proc[p].kind = "recommend" /\ proc[p].pc = "done")
        => MapSeq(Recommendations[proc[p].user], toResult) = proc[p].result

\* C6 witness: a commit that dropped a museum of the previous set
C6_Witness ==
    \E p \in Procs :
        /\ proc[p].kind = "recommend" /\ proc[p].pc = "done" /\ proc[p].result # <<>>
        /\ museumsOf(proc[p].before) \ museumsOf(Recommendations[proc[p].user]) # {}

\* C7: with k >= 1, an llmRecommend for a user without TasteSignals, or whose
\* candidates are all rated, succeeds with the empty list, leaves
\* Recommendations(user) empty and issues no external call.
C7_ShortCircuitIsEmptySuccess ==
    \A p \in Procs :
        (proc[p].kind = "recommend" /\ proc[p].k >= 1
            /\ (proc[p].tasteCount = 0 \/ proc[p].unseen = <<>>))
        => /\ proc[p].pc = "done" /\ proc[p].result = <<>>
           /\ proc[p].calls = 0 /\ proc[p].llm = "none"
           /\ Recommendations[proc[p].user] = <<>>

\* C7 witness: every candidate was rated, and the call emptied a non-empty set
C7_Witness ==
    \E p \in Procs :
        /\ proc[p].kind = "recommend" /\ proc[p].pc = "done" /\ proc[p].k >= 1
        /\ proc[p].tasteCount > 0 /\ proc[p].unseen = <<>>
        /\ proc[p].before # <<>>

\* C8 (the claim as stated): an executeLLM invocation that starts while the
\* text an earlier invocation with the same (modelName, prompt) returned is
\* memoized and within the TTL issues no external call and returns that text.
C8_SecondCallIsServedFromMemo ==
    \A p \in Procs :
        (proc[p].llm # "none" /\ proc[p].seen.present)
        => /\ proc[p].calls = 0
           /\ proc[p].llm = "returned"
           /\ proc[p].text = proc[p].seen.text

\* C9 (the claim as stated): an executeLLM invocation whose external calls all
\* failed with a retryable status (429, 500, 502, 503, 504) stops calling
\* within the retry budget, and when it throws, the error is labelled
\* LLM_TRANSIENT_<code> with the status of the last failure.
C9_AlwaysTransientThrowsTransient ==
    \A p \in Procs :
        (proc[p].llm # "none" /\ proc[p].lastErr # NoServiceError /\ proc[p].onlyRetryable)
        => /\ proc[p].calls <= 2 + MAX_RETRIES
           /\ proc[p].llm = "thrown"
                => /\ proc[p].thrown.label = "LLM_TRANSIENT"
                   /\ proc[p].thrown.code = proc[p].lastErr.status

\* neither a timeout nor a service-reported retryable status
Permanent(err) ==
    /\ err.name # "AbortError" /\ ~MentionsAbortOrTimeout(err.msg)
    /\ err.status \notin RetryableStatus

\* C10: a permanently failing external call is not retried and no backoff
\* follows it: executeLLM throws LLM_ERROR with the underlying message at
\* once (after exactly one call when it is the first failure), and
\* llmRecommend fails with the store as it was.
C10_PermanentFailsAtOnce ==
    \A p \in Procs :
        /\ (proc[p].llm \in {"backoff", "calling"} /\ proc[p].lastErr # NoServiceError)
           => ~Permanent(proc[p].lastErr)
        /\ (proc[p].llm = "thrown" /\ Permanent(proc[p].lastErr))
           => /\ proc[p].thrown.label = "LLM_ERROR"
              /\ proc[p].thrown.msg = proc[p].lastErr.msg
              /\ proc[p].calls = Len(proc[p].waits) + 1
              /\ (proc[p].waits = <<>> => proc[p].calls = 1)
              /\ (proc[p].kind = "recommend"
                    => /\ proc[p].pc = "failed"
                       /\ Recommendations[proc[p].user] = proc[p].before)

\* C10 witness: the first call failed permanently while rows were stored
C10_Witness ==
    \E p \in Procs :
        /\ proc[p].kind = "recommend" /\ proc[p].pc = "failed"
        /\ proc[p].thrown.label = "LLM_ERROR" /\ proc[p].calls = 1
        /\ proc[p].before # <<>>

\* C11: an attempt that is still pending when the timeout fires is cancelled
\* and classified as a timeout: it is retried after a backoff while the budget
\* lasts (at least MAX_RETRIES retries precede giving up), and when
\* executeLLM gives up on a timeout the error is labelled LLM_TIMEOUT.
C11_TimeoutIsRetriedThenLabelled ==
    \A p \in Procs :
        proc[p].lastErr = AbortError
        => /\ proc[p].llm \in {"backoff", "calling", "returned", "thrown"}
           /\ proc[p].waits # <<>> \/ proc[p].llm = "thrown"
           /\ proc[p].llm = "thrown"
                => /\ proc[p].thrown.label = "LLM_TIMEOUT"
                   /\ proc[p].thrown.code = ""
                   /\ Len(proc[p].waits) >= MAX_RETRIES

\* C11 witness: timeouts were retried until the budget was spent, the last
\* attempt timed out too, and LLM_TIMEOUT surfaced
C11_Witness ==
    \E p \in Procs :
        /\ proc[p].llm = "thrown" /\ proc[p].lastErr = AbortError
        /\ proc[p].thrown.label = "LLM_TIMEOUT"
        /\ Len(proc[p].waits) > MAX_RETRIES
        /\ now >= (1 + MAX_RETRIES) * DEFAULT_TIMEOUT_MS

\* C12: a timeout or transient failure is not surfaced while the budget lasts
\* (at least MAX_RETRIES retries precede a throw on such a failure), and an
\* attempt that succeeds after earlier failures ends the invocation: executeLLM
\* returns the text of that attempt, nothing is thrown, and the invocation
\* issues no further external call.
C12_SuccessAfterFailuresReturns ==
    [][\A p \in Procs :
         /\ (proc[p].llm = "calling" /\ proc'[p].llm = "thrown"
                /\ isTransient(proc'[p].lastErr))
            => Len(proc[p].waits) >= MAX_RETRIES
         /\ (proc[p].llm = "calling" /\ proc'[p].llm = "returned")
            => /\ proc'[p].thrown = NoThrown
               /\ proc'[p].calls = proc[p].calls
               /\ proc'[p].text = memo'[promptKey(proc[p].model, proc[p].prompt)].text
         /\ (proc[p].llm = "returned" /\ proc'[p].startOp = proc[p].startOp)
            => /\ proc'[p].llm = "returned"
               /\ proc'[p].calls = proc[p].calls
               /\ proc'[p].text = proc[p].text]_vars

\* C12 witness: the third attempt succeeded after two failures, the last of
\* them a timeout
C12_Witness ==
    \E p \in Procs :
        /\ proc[p].llm = "returned" /\ proc[p].thrown = NoThrown
        /\ proc[p].calls = 3 /\ Len(proc[p].waits) = 2
        /\ proc[p].lastErr = AbortError
        /\ proc[p].text # <<>>

\* C13: a memo entry is served only while now - (time of its write) <=
\* MEMO_TTL_MS, and a hit leaves the entry and its timestamp as they were; a
\* lookup that finds the entry older deletes it and goes on to an external
\* call, whose result is stored with the time of that write; and an entry
\* leaves the memo only through such a lookup of its key.
C13_MemoExpiresLazily ==
    [][/\ \A p \in Procs :
            (proc'[p].startOp # proc[p].startOp /\ proc'[p].llm # "none")
            => LET key == promptKey(proc'[p].model, proc'[p].prompt) IN
               /\ (proc'[p].llm = "returned" /\ proc'[p].calls = 0)
                  => /\ key \in DOMAIN memo
                     /\ now - memo[key].at <= MEMO_TTL_MS
                     /\ proc'[p].text = memo[key].text
                     /\ memo' = memo
               /\ (key \in DOMAIN memo /\ now - memo[key].at > MEMO_TTL_MS)
                  => /\ key \notin DOMAIN memo'
                     /\ proc'[p].llm = "calling" /\ proc'[p].calls = 1
       /\ \A key \in DOMAIN memo \ DOMAIN memo' :
            /\ now - memo[key].at > MEMO_TTL_MS
            /\ \E p \in Procs : /\ proc'[p].startOp # proc[p].startOp
                                 /\ key = promptKey(proc'[p].model, proc'[p].prompt)
       /\ \A p \in Procs :
            (proc[p].llm = "calling" /\ proc'[p].llm = "returned")
            => memo'[promptKey(proc[p].model, proc[p].prompt)].at = now']_vars

\* C13 witness: the invocation found its entry expired, deleted it, called, and
\* the entry is back with a timestamp later than the TTL
C13_Witness ==
    \E p \in Procs :
        LET key == promptKey(proc[p].model, proc[p].prompt) IN
        /\ proc[p].evicted /\ proc[p].llm = "returned" /\ proc[p].calls >= 1
        /\ key \in DOMAIN memo /\ memo[key].at > MEMO_TTL_MS
        /\ memo[key].text = proc[p].text

\* C14: the step in which executeLLM returns the text of a successful external
\* call leaves the memo mapping the invocation's key to that text; a failed or
\* timed-out attempt leaves the memo as it was; and a memo entry is created or
\* changed only by such a successful call for its key, with the text returned.
C14_MemoizedBeforeReturned ==
    [][/\ \A p \in Procs :
            LET key == promptKey(proc[p].model, proc[p].prompt) IN
            /\ (proc[p].llm = "calling" /\ proc'[p].llm = "returned")
               => /\ key \in DOMAIN memo'
                  /\ memo'[key] = [at |-> now', text |-> proc'[p].text]
            /\ (proc[p].llm = "calling" /\ proc'[p].llm \in {"backoff", "thrown"})
               => memo' = memo
       /\ \A key \in DOMAIN memo' :
            (key \notin DOMAIN memo \/ memo'[key] # memo[key])
            => \E p \in Procs :
                  /\ proc[p].llm = "calling" /\ proc'[p].llm = "returned"
                  /\ key = promptKey(proc[p].model, proc[p].prompt)
                  /\ memo'[key].text = proc'[p].text]_vars

\* C14 witness: after two failed attempts, the last a timeout, a call succeeded
\* and its text is the memo entry of the key
C14_Witness ==
    \E p \in Procs :
        LET key == promptKey(proc[p].model, proc[p].prompt) IN
        /\ proc[p].llm = "returned" /\ proc[p].calls = 3
        /\ proc[p].lastErr = AbortError /\ faults = 2
        /\ key \in DOMAIN memo /\ memo[key].text = proc[p].text
        /\ memo[key].at = now

\* the errors of the four checks, and whether some entry of an answer violates
\* each check (whatever its position, and whatever else is wrong)
ShapeKinds == {"shape-empty", "shape-id", "shape-score", "shape-rationale"}
EligibilityKinds == {"eligibility", "duplicate"}
ScoreKinds == {"score-range", "percent-prefix", "percent-range", "percent-mismatch"}
RationaleKinds == {"empty-rationale", "banned-vocabulary", "length-exceeded"}

ViolatesShape(recs) == recs = <<>> \/ \E i \in 1..Len(recs) : ShapeError(recs[i]) # NoError
ViolatesEligibility(recs, unseen) ==
    \E i \in 1..Len(recs) :
        \/ recs[i].museumId \notin Range(unseen)
        \/ \E j \in 1..Len(recs) : j # i /\ recs[j].museumId = recs[i].museumId
ViolatesScore(recs) == \E i \in 1..Len(recs) : ScoreError(recs[i]) # NoError
ViolatesRationale(recs) == \E i \in 1..Len(recs) : RationaleError(recs[i]) # NoError

\* the kinds of error the earliest violated check throws ({} when none is violated)
EarliestCheckKinds(recs, unseen) ==
    IF ViolatesShape(recs) THEN ShapeKinds
    ELSE IF ViolatesEligibility(recs, unseen) THEN EligibilityKinds
    ELSE IF ViolatesScore(recs) THEN ScoreKinds
    ELSE IF ViolatesRationale(recs) THEN RationaleKinds
    ELSE {}

\* an invocation that has run the validators on a parsed answer
Validated(p) ==
    /\ proc[p].kind = "recommend" /\ proc[p].llm = "returned"
    /\ proc[p].pc \in {"done", "failed"}
    /\ parseLLMJson(proc[p].text).ok

\* C15: the checks run in the order shape, eligibility and uniqueness,
\* score/percentage, rationale, each over all entries before the next: an
\* answer in which any entry violates any check is rejected with an error of
\* the earliest violated check in that order, and nothing of it is returned or
\* stored; an answer that violates none is accepted.
C15_EarliestCheckRejects ==
    \A p \in Procs :
        Validated(p)
        => LET recs == parseLLMJson(proc[p].text).recommendations
               kinds == EarliestCheckKinds(recs, proc[p].unseen)
           IN  IF kinds = {}
               THEN proc[p].pc = "done"
               ELSE /\ proc[p].pc = "failed"
                    /\ proc[p].error.kind \in kinds
                    /\ proc[p].result = <<>>
                    /\ Recommendations[proc[p].user] = proc[p].before

\* C15 witness: the first entry has a score out of range and the second an
\* identifier outside the pool, and the answer is rejected for the identifier
C15_Witness ==
    \E p \in Procs :
        /\ Validated(p) /\ proc[p].text = <<"{", "R_scoreThenElig", "}">>
        /\ proc[p].error = Err("eligibility", "Z")

\* the identifiers of an answer that are outside the unseen set, and those
\* that occur more than once
Ineligible(recs, unseen) ==
    {recs[i].museumId : i \in {j \in 1..Len(recs) : recs[j].museumId \notin Range(unseen)}}
Repeated(recs) ==
    {recs[i].museumId : i \in {j \in 1..Len(recs) :
                                  \E h \in 1..Len(recs) : h # j /\ recs[h].museumId = recs[j].museumId}}

C17_EmptyArrayRejects ==
    \A p \in Procs :
        (/\ Validated(p) /\ parseLLMJson(proc[p].text).recommendations = <<>>
         /\ proc[p].unseen # <<>>)
        => /\ proc[p].pc = "failed"
           /\ proc[p].error = Err("shape-empty", "")
           /\ Recommendations[proc[p].user] = proc[p].before

\* C17 witness: the empty array was rejected while the user had stored rows,
\* which are still stored
C17_Witness ==
    \E p \in Procs :
        /\ Validated(p) /\ proc[p].error = Err("shape-empty", "")
        /\ proc[p].before # <<>>
        /\ Recommendations[proc[p].user] # <<>>

\* the tier words in the letter cases the model's rationales use
AnyCaseTierWords == {"LOVE", "LIKE", "MEH", "love", "Love", "like", "Like", "meh", "Meh"}

\* C18 (the claim as stated): an answer with a rationale whose text after the
\* percentage prefix holds LOVE, LIKE or MEH as a token in any letter case is
\* rejected, so no stored rationale holds such a token.
C18_NoTierWordInAnyCase ==
    /\ \A u \in Users : \A i \in 1..Len(Recommendations[u]) :
          Range(StripPrefix(Recommendations[u][i].rationale)) \cap AnyCaseTierWords = {}
    /\ \A p \in Procs :
          LET recs == parseLLMJson(proc[p].text).recommendations IN
          (/\ Validated(p)
           /\ \E i \in 1..Len(recs) :
                 /\ recs[i].hasRationale
                 /\ Range(StripPrefix(recs[i].rationale)) \cap AnyCaseTierWords # {})
          => proc[p].pc = "failed"

\* position in the answer of the entry for museum m
IndexOf(recs, m) == CHOOSE i \in 1..Len(recs) : recs[i].museumId = m

\* entry i of the answer ranks before entry j: higher score, or equal score
\* and earlier in the answer
RanksBefore(recs, i, j) ==
    \/ recs[i].score > recs[j].score
    \/ recs[i].score = recs[j].score /\ i < j

\* C19: the list a successful llmRecommend returns and stores holds
\* min(k, n) of the n validated entries, in descending order of score with
\* equal scores in the answer's order, and every entry left out ranks after
\* every entry kept (so none left out has a higher score than one kept).
C19_TopKByScoreStable ==
    \A p \in Procs :
        (Validated(p) /\ proc[p].pc = "done")
        => LET recs == parseLLMJson(proc[p].text).recommendations
               res  == proc[p].result
               kept == {IndexOf(recs, res[i].museum) : i \in 1..Len(res)}
           IN  /\ Len(res) = (IF proc[p].k < Len(recs) THEN proc[p].k ELSE Len(recs))
               /\ \A i \in 1..Len(res) :
                     /\ \E j \in 1..Len(recs) : recs[j].museumId = res[i].museum
                     /\ res[i].rationale = trim(recs[IndexOf(recs, res[i].museum)].rationale)
               /\ Cardinality(kept) = Len(res)
               /\ \A i, j \in 1..Len(res) :
                     i < j => RanksBefore(recs, IndexOf(recs, res[i].museum),
                                                IndexOf(recs, res[j].museum))
               /\ \A o \in (1..Len(recs)) \ kept : \A h \in kept : RanksBefore(recs, h, o)
               /\ [i \in 1..Len(res) |-> toResult(Recommendations[proc[p].user][i])] = res
               /\ Len(Recommendations[proc[p].user]) = Len(res)

\* C19 witness: two entries of equal score and k = 1: the first of the answer
\* is kept
C19_Witness ==
    \E p \in Procs :
        /\ Validated(p) /\ proc[p].pc = "done" /\ proc[p].k = 1
        /\ proc[p].text = <<"{", "R_tie", "}">>
        /\ Len(proc[p].result) = 1 /\ proc[p].result[1].museum = "C"

\* C20: a getRecommendations(u, j) with j >= 1 that runs after a successful
\* llmRecommend of u returned the list R (and before another one commits)
\* returns the first min(j, |R|) elements of R in R's order, and issues no
\* external call: the invocations, the memo and the stores stay as they are.
C20_ReadReturnsPrefixOfResult ==
    [][lastRead'.op # lastRead.op
       => /\ UNCHANGED <<TasteSignals, Recommendations, memo, proc, faults>>
          /\ \A p \in Procs :
                (/\ proc[p].kind = "recommend" /\ proc[p].pc = "done"
                 /\ proc[p].user = lastRead'.user /\ lastRead'.k >= 1)
                => LET R == proc[p].result
                       n == IF lastRead'.k < Len(R) THEN lastRead'.k ELSE Len(R)
                   IN  lastRead'.result = SubSeq(R, 1, n)]_vars

\* C20 witness: two museums were returned and the read with j = 1 gave the first
C20_Witness ==
    \E p \in Procs :
        /\ proc[p].kind = "recommend" /\ proc[p].pc = "done"
        /\ Len(proc[p].result) = 2
        /\ lastRead.op > proc[p].startOp
        /\ lastRead.user = proc[p].user /\ lastRead.k = 1
        /\ lastRead.result = <<proc[p].result[1]>>


(* ---------------------------------------------------------------------- *)
\* C21: getRecommendations is a pure read: for any user and any k the step
\* that performs it leaves Recommendations (the rows of every user and
\* their stored order), TasteSignals and the memo cache as they were, and
\* for a user with no stored rows it returns the empty list.
C21_ReadIsPure ==
    [][ lastRead'.op # lastRead.op =>
          /\ Recommendations' = Recommendations
          /\ TasteSignals' = TasteSignals
          /\ memo' = memo
          /\ (Recommendations[lastRead'.user] = <<>> =>
                 lastRead'.result = <<>>) ]_vars

\* a read of fewer rows than the user has stored (k = 1 of two rows) has
\* happened as the last operation and both rows are still stored.
C21_Witness ==
    /\ lastRead.op = ops
    /\ lastRead.k = 1
    /\ Len(lastRead.result) = 1
    /\ Len(Recommendations[lastRead.user]) = 2


(* ---------------------------------------------------------------------- *)
\* C22: when llmRecommend invocations of one user overlap, every change of
\* Recommendations(user) is made by one invocation completing in that step
\* and installs that invocation's complete result, and each completing
\* invocation leaves exactly its own result in the store: the store equals
\* the result of whichever completed last and never mixes two results.
C22_LastCompleterWins ==
    [][ /\ \A u \in Users :
             Recommendations'[u] # Recommendations[u] =>
                \E p \in Procs :
                   /\ proc'[p] # proc[p]
                   /\ proc'[p].pc = "done"
                   /\ proc'[p].user = u
                   /\ MapSeq(Recommendations'[u], toResult) = proc'[p].result
        /\ \A p \in Procs :
             (proc'[p] # proc[p] /\ proc'[p].pc = "done") =>
                MapSeq(Recommendations'[proc'[p].user], toResult) = proc'[p].result
      ]_vars

\* two invocations of the same user have both succeeded with different
\* non-empty results; p1 was issued first and completed last (the store
\* holds its result, not that of p2, which was issued while p1 was pending).
C22_Witness ==
    /\ proc["p1"].pc = "done" /\ proc["p2"].pc = "done"
    /\ proc["p1"].user = proc["p2"].user
    /\ proc["p1"].startOp < proc["p2"].startOp
    /\ proc["p1"].result # <<>> /\ proc["p2"].result # <<>>
    /\ proc["p1"].result # proc["p2"].result
    /\ MapSeq(Recommendations[proc["p1"].user], toResult) = proc["p1"].result


(* ---------------------------------------------------------------------- *)
\* C23: under any interleaving, a step of an llmRecommend invocation for
\* user u (its start, the answer or failure of its external call, its
\* continuation) leaves TasteSignals of every user, u included, and the
\* Recommendations of every other user unchanged.
C23_OtherUsersUntouched ==
    [][ \A p \in Procs :
          proc'[p] # proc[p] =>
             /\ TasteSignals' = TasteSignals
             /\ \A v \in Users \ {proc'[p].user} :
                   Recommendations'[v] = Recommendations[v] ]_vars

\* an invocation of u1 has committed and one of u2, issued after it, has
\* failed: u1 holds its committed rows, u2 holds none, and the taste rows
\* of both users are still there.
C23_Witness ==
    /\ proc["p1"].user = "u1" /\ proc["p1"].pc = "done" /\ proc["p1"].result # <<>>
    /\ proc["p2"].user = "u2" /\ proc["p2"].pc = "failed"
    /\ proc["p1"].startOp < proc["p2"].startOp
    /\ MapSeq(Recommendations["u1"], toResult) = proc["p1"].result
    /\ Recommendations["u2"] = <<>>
    /\ TasteSignals["u1"] # <<>> /\ TasteSignals["u2"] # <<>>


(* ---------------------------------------------------------------------- *)
\* the first balanced top-level block of a text: from its first "{" to the
\* "}" that closes it
FirstBalancedBlock(raw) ==
    LET opens == {i \in 1..Len(raw) : raw[i] = "{"} IN
    IF opens = {} THEN [found |-> FALSE, text |-> <<>>]
    ELSE LET i == Min(opens)
             ends == {j \in i..Len(raw) : Depth(raw, j) = Depth(raw, i - 1)}
         IN  IF ends = {} THEN [found |-> FALSE, text |-> <<>>]
             ELSE [found |-> TRUE, text |-> SubSeq(raw, i, Min(ends))]

\* the payload recovered by a direct parse, else from the first balanced block
RecoveredFromFirstBlock(raw) ==
    LET direct == JSONparse(raw)
        block == FirstBalancedBlock(raw)
        inner == JSONparse(block.text)
    IN  IF direct.syntax /\ direct.hasRecs
        THEN [ok |-> TRUE, recommendations |-> direct.recommendations]
        ELSE IF block.found /\ inner.syntax /\ inner.hasRecs
        THEN [ok |-> TRUE, recommendations |-> inner.recommendations]
        ELSE [ok |-> FALSE, recommendations |-> <<>>]

\* C24 (the claim as stated): llmRecommend fails with a parse error exactly
\* when neither the returned text itself nor its first balanced top-level
\* {...} block is an object with a recommendations array, whatever prose or
\* braces come before or after the block; otherwise the payload parsed is
\* that of the text or of that block.
C24_ParsesFirstBalancedBlock ==
    \A p \in Procs :
        (proc[p].kind = "recommend" /\ proc[p].llm = "returned"
            /\ proc[p].pc \in {"done", "failed"})
        => LET expected == RecoveredFromFirstBlock(proc[p].text) IN
           /\ (proc[p].error.kind = "parse") <=> ~expected.ok
           /\ expected.ok =>
                 parseLLMJson(proc[p].text).recommendations = expected.recommendations


(* ---------------------------------------------------------------------- *)
\* C25: TasteSignals never holds two rows of one user for the same museum;
\* a step that changes a user's rows without removing one (a
\* recordMuseumTaste) either rewrites the one row of the rated museum in
\* place, with the new taste and updatedAt = now, or appends one row for a
\* museum not rated before, and leaves every other row, every other user
\* and Recommendations unchanged.
C25_OneRowPerPair ==
    [][ \A u \in Users :
          LET old == TasteSignals[u]
              new == TasteSignals'[u]
          IN  /\ \A i, j \in 1..Len(new) : new[i].museum = new[j].museum => i = j
              /\ (new # old /\ Len(new) >= Len(old)) =>
                    /\ Recommendations' = Recommendations
                    /\ \A v \in Users \ {u} : TasteSignals'[v] = TasteSignals[v]
                    /\ IF Len(new) = Len(old)
                       THEN \E i \in 1..Len(new) :
                               /\ new[i].museum = old[i].museum
                               /\ new[i].updatedAt = now
                               /\ \A j \in 1..Len(new) : j # i => new[j] = old[j]
                       ELSE /\ Len(new) = Len(old) + 1
                            /\ SubSeq(new, 1, Len(old)) = old
                            /\ new[Len(new)].updatedAt = now
                            /\ \A j \in 1..Len(old) :
                                  old[j].museum # new[Len(new)].museum ]_vars

\* u1 had one taste row when its invocation started, and u1's only row now
\* is A with taste MEH and an updatedAt after time 0 (time advances only
\* while an invocation sleeps a backoff): the row of (u1, A) was rewritten
\* by a later recordMuseumTaste and is still the only one.
C25_Witness ==
    /\ proc["p1"].user = "u1" /\ proc["p1"].tasteCount = 1
    /\ Len(TasteSignals["u1"]) = 1
    /\ TasteSignals["u1"][1].museum = "A"
    /\ TasteSignals["u1"][1].taste = "MEH"
    /\ TasteSignals["u1"][1].updatedAt > 0


(* ---------------------------------------------------------------------- *)
\* C26: an llmRecommend invocation with k < 1 fails at once with the
\* precondition error: the step that starts it issues no external call,
\* does not enter executeLLM and leaves TasteSignals, Recommendations and
\* the memo unchanged, whether or not the user has taste rows or unseen
\* candidates.
C26_SmallKFailsFirst ==
    [][ \A p \in Procs :
          (proc'[p].startOp # proc[p].startOp
              /\ proc'[p].kind = "recommend" /\ proc'[p].k < 1)
          => /\ proc'[p].pc = "failed"
             /\ proc'[p].error = Err("precondition", "")
             /\ proc'[p].llm = "none"
             /\ proc'[p].calls = 0
             /\ TasteSignals' = TasteSignals
             /\ Recommendations' = Recommendations
             /\ memo' = memo ]_vars

\* an invocation with k = 0 has failed with the precondition error for a
\* user who has rated every candidate (the unseen set is empty) and whose
\* stored recommendations were not empty: they are still stored.
C26_Witness ==
    \E p \in Procs :
        /\ proc[p].kind = "recommend" /\ proc[p].k = 0
        /\ proc[p].pc = "failed" /\ proc[p].error = Err("precondition", "")
        /\ Range(proc[p].candidates) \subseteq ratedBy(proc[p].user)
        /\ proc[p].before # <<>>
        /\ Recommendations[proc[p].user] = proc[p].before


(* ---------------------------------------------------------------------- *)
\* C27 (the claim as stated): whatever failures occur, one executeLLM
\* invocation issues at most 1 + MAX_RETRIES external calls.
C27_AtMostThreeCalls ==
    \A p \in Procs : proc[p].calls <= 1 + MAX_RETRIES

(* ---------------------------------------------------------------------- *)
RECURSIVE Pow2(_)
Pow2(n) == IF n = 0 THEN 1 ELSE 2 * Pow2(n - 1)

\* the delay claimed before the n-th retry
ScheduledDelay(n) ==
    LET d == BACKOFF_MS * Pow2(n - 1) IN IF d < BACKOFF_CAP_MS THEN d ELSE BACKOFF_CAP_MS

\* C28: within one executeLLM invocation the n-th backoff slept is
\* min(500 * 2^(n-1), 4000) ms; one backoff lies between every two
\* consecutive external calls (a retry is issued only once the clock has
\* reached the failure time plus the delay), and none is taken after the
\* last failed call, before the error is thrown.
C28_BackoffSchedule ==
    [][ \A p \in Procs :
          LET old == proc[p]
              new == proc'[p]
          IN  /\ \A n \in 1..Len(new.waits) : new.waits[n] = ScheduledDelay(n)
              /\ new.llm = "backoff" => Len(new.waits) = new.calls
              /\ new.llm \in {"calling", "returned", "thrown"} =>
                    Len(new.waits) = IF new.calls = 0 THEN 0 ELSE new.calls - 1
              /\ (old.llm = "calling" /\ new.llm = "backoff") =>
                    new.wakeAt = now' + new.waits[Len(new.waits)]
              /\ (old.llm = "backoff" /\ new.llm = "calling") =>
                    /\ now' >= old.wakeAt
                    /\ new.callAt >= old.wakeAt ]_vars

\* an invocation has slept 500, 1000 and 2000 ms between its four calls and
\* has thrown after the last failure without sleeping again.
C28_Witness ==
    \E p \in Procs :
        /\ proc[p].llm = "thrown"
        /\ proc[p].waits = <<500, 1000, 2000>>
        /\ proc[p].calls = 4
        /\ now >= 3500

(* ---------------------------------------------------------------------- *)
\* C29 (the claim as stated): an executeLLM invocation that starts while the
\* empty string is memoized for its (modelName, prompt) and within the TTL
\* issues no external call and returns the empty string.
C29_EmptyTextIsServedFromMemo ==
    \A p \in Procs :
        (proc[p].llm # "none" /\ proc[p].seen.present /\ proc[p].seen.text = <<>>)
        => /\ proc[p].calls = 0
           /\ proc[p].llm = "returned"
           /\ proc[p].text = <<>>


(* ---------------------------------------------------------------------- *)
\* an executeLLM invocation that was served from the memo
ServedFromMemo(p) ==
    proc[p].kind = "execute" /\ proc[p].llm = "returned" /\ proc[p].calls = 0

\* C30 (the claim as stated): a text served from the memo was produced by
\* the external call of an earlier invocation with exactly the same model
\* name and the same prompt: invocations whose (modelName, prompt) pairs
\* differ never share a memo entry.
C30_KeyIdentifiesPair ==
    \A p \in Procs :
        ServedFromMemo(p) =>
           \E q \in Procs \ {p} :
              /\ proc[q].llm = "returned" /\ proc[q].calls >= 1
              /\ proc[q].startOp < proc[p].startOp
              /\ proc[q].model = proc[p].model
              /\ proc[q].prompt = proc[p].prompt
              /\ proc[q].text = proc[p].text


(* ---------------------------------------------------------------------- *)
\* C31 (the claim as stated): when the continuation of an llmRecommend that
\* was suspended on the model call commits, no row it writes to
\* Recommendations(user) names a museum that has a TasteSignal for the user
\* at that moment, also when recordMuseumTaste ran during the suspension.
C31_CommitExcludesRatedMeanwhile ==
    [][ \A p \in Procs :
          (proc[p].kind = "recommend" /\ proc[p].pc = "await" /\ proc'[p].pc = "done")
          => museumsOf(Recommendations'[proc[p].user])
                \cap ratedIn(TasteSignals', proc[p].user) = {} ]_vars


(* ---------------------------------------------------------------------- *)
\* two slots hold executeLLM invocations with the same (modelName, prompt)
SamePair(a, b) ==
    a.kind = "execute" /\ b.kind = "execute" /\ a.model = b.model /\ a.prompt = b.prompt

\* C32: when two executeLLM invocations with the same (modelName, prompt)
\* overlap, the one that starts while the other has not yet memoized issues
\* its own external call; each returns the text of its own call; the step
\* in which one of them completes leaves the memo entry holding that
\* invocation's text and the time of its completion (last write wins), so
\* the entry always holds the text one of the two calls returned.
C32_OverlapLastWriteWins ==
    [][ \A p, q \in Procs :
          (p # q /\ SamePair(proc'[p], proc'[q])) =>
             LET key == promptKey(proc'[p].model, proc'[p].prompt) IN
             /\ (proc[q].kind = "none" /\ proc[p].llm \in {"calling", "backoff"})
                => (proc'[q].llm = "calling" /\ proc'[q].calls = 1)
             /\ (proc[p].llm = "calling" /\ proc'[p].llm = "returned")
                => /\ key \in DOMAIN memo'
                   /\ memo'[key] = [at |-> now', text |-> proc'[p].text]
                   /\ proc'[q] = proc[q]
             /\ (key \in DOMAIN memo' /\ proc'[p].calls >= 1 /\ proc'[q].calls >= 1)
                => \E r \in {p, q} :
                      proc'[r].llm = "returned" /\ memo'[key].text = proc'[r].text ]_vars

\* p1 was issued first, p2 started with the same pair before p1 had
\* memoized and returned its own text at once; p1 failed once, slept 500 ms
\* and then returned a different text: the entry holds p1's text and the
\* time of p1's completion.
C32_Witness ==
    LET key == promptKey(proc["p1"].model, proc["p1"].prompt) IN
    /\ SamePair(proc["p1"], proc["p2"])
    /\ proc["p1"].startOp < proc["p2"].startOp
    /\ proc["p2"].llm = "returned" /\ proc["p2"].calls = 1
    /\ proc["p1"].llm = "returned" /\ proc["p1"].waits = <<500>>
    /\ proc["p1"].text # proc["p2"].text
    /\ key \in DOMAIN memo
    /\ memo[key] = [at |-> 500, text |-> proc["p1"].text]


(* ---------------------------------------------------------------------- *)
\* the ordered (museum, taste) list of taste rows
Profile(tastes) == [i \in 1..Len(tastes) |-> <<tastes[i].museum, tastes[i].taste>>]

\* an llmRecommend invocation that built a prompt
Prompted(pr) == pr.kind = "recommend" /\ pr.llm # "none"

\* C33: two llmRecommend invocations build the same prompt, and so use the
\* same memo key, exactly when their ordered (museum, taste) lists, their
\* unseen candidate lists and their k are equal, whatever the user and the
\* updatedAt values; and an invocation is served from the memo only the
\* text memoized under the key of its own prompt.
C33_PromptIsFunctionOfProfile ==
    \A p, q \in Procs :
        (Prompted(proc[p]) /\ Prompted(proc[q])) =>
           /\ (proc[p].prompt = proc[q].prompt)
                 <=> (/\ Profile(proc[p].tastes) = Profile(proc[q].tastes)
                      /\ proc[p].unseen = proc[q].unseen
                      /\ proc[p].k = proc[q].k)
           /\ (promptKey(proc[p].model, proc[p].prompt)
                  = promptKey(proc[q].model, proc[q].prompt))
                 <=> (proc[p].prompt = proc[q].prompt)
           /\ (proc[p].calls = 0 /\ proc[p].llm = "returned")
               => (proc[p].seen.present /\ proc[p].text = proc[p].seen.text)

\* u1 (who rated A at time 0) and then u2 (who rated A at time 1000) asked
\* with the same (museum, taste) list, candidates and k: the prompts are
\* equal and u2 was served u1's memoized text without a call; u2 has since
\* given A another taste, and the prompt its next call would build differs
\* and has no memo entry.
C33_Witness ==
    LET next == buildPromptFromTasteSignals(
                    TasteSignals["u2"],
                    unseenOf(TasteSignals["u2"], proc["p2"].candidates), proc["p2"].k)
    IN  /\ Prompted(proc["p1"]) /\ proc["p1"].user = "u1"
        /\ proc["p1"].llm = "returned" /\ proc["p1"].calls = 1
        /\ Prompted(proc["p2"]) /\ proc["p2"].user = "u2"
        /\ proc["p2"].llm = "returned" /\ proc["p2"].calls = 0
        /\ proc["p1"].tastes # proc["p2"].tastes
        /\ proc["p1"].prompt = proc["p2"].prompt
        /\ proc["p2"].text = proc["p1"].text
        /\ Profile(TasteSignals["u2"]) # Profile(proc["p2"].tastes)
        /\ Len(TasteSignals["u2"]) = Len(proc["p2"].tastes)
        /\ next # proc["p2"].prompt
        /\ promptKey(DefaultModel, next) \notin DOMAIN memo


(* ---------------------------------------------------------------------- *)
\* the sentence-like segments of a text delimited by . ? !: the maximal runs
\* of tokens without a delimiter that hold something besides whitespace
SegmentCount(text) ==
    Cardinality({i \in 1..Len(text) :
        /\ ~IsStop(text[i]) /\ ~IsSpace(text[i])
        /\ \A j \in 1..(i - 1) :
              (~IsStop(text[j]) /\ ~IsSpace(text[j]))
                 => \E h \in (j + 1)..(i - 1) : IsStop(text[h])})

\* the entry's rationale is empty after the percentage prefix, or has more
\* than MAX_SENTENCES segments
TooLongOrEmpty(r) ==
    /\ r.hasRationale
    /\ \/ StripPrefix(r.rationale) = <<>>
       \/ SegmentCount(StripPrefix(r.rationale)) > MAX_SENTENCES

\* C34 (the claim as stated): an answer with a rationale whose text after
\* the percentage prefix is empty or has more than 3 segments delimited by
\* . ? ! is rejected with a validation error naming a museum, and the
\* empty-rationale and length errors are raised only for such a rationale
\* of the museum named.
C34_LongOrEmptyRationaleRejects ==
    \A p \in Procs :
        Validated(p) =>
           LET recs == parseLLMJson(proc[p].text).recommendations IN
           /\ (\E i \in 1..Len(recs) : TooLongOrEmpty(recs[i]))
                 => (proc[p].pc = "failed" /\ proc[p].error.id # "")
           /\ proc[p].error.kind \in {"empty-rationale", "length-exceeded"}
                 => \E i \in 1..Len(recs) :
                       recs[i].museumId = proc[p].error.id /\ TooLongOrEmpty(recs[i])

====
